---- MODULE Spec2Model ----
(***************************************************************************)
(* Option Trader's Toolkit: the Black-Scholes pricer                       *)
(* (src/src/black_scholes.py) and the strike-grid script (src/main.py).    *)
(*                                                                         *)
(* Numbers.  The program computes in IEEE binary64.  The model keeps the   *)
(* IEEE value classes (finite, signed zero, +-infinity, NaN) and their     *)
(* propagation rules exactly, and carries finite magnitudes in fixed point *)
(* with ONE units per 1.0.  Exact zeros of the cumulative normal (its      *)
(* underflow) therefore appear at |x| >= 3.3 in the model and at           *)
(* |x| >= 38.5 in binary64; the input sets of Spec are chosen so that no   *)
(* priced contract has 3.2 < |d1| < 39 or 3.2 < |d2| < 39 (checked as      *)
(* OutsideUnderflowBand), hence a zero of the model is a zero of the       *)
(* program and conversely.                                                 *)
(*                                                                         *)
(* Strike values (the three strike widgets and the array np.arange         *)
(* returns) are where rounding decides the outcome, so they are binary     *)
(* floating-point numbers with MantissaBits significant bits (binary64 has *)
(* 53), rounded to nearest, ties to even, after every operation, and kept  *)
(* as integers in units of 1/Q.  Integers and multiples of 0.5 up to 130   *)
(* are exact in both formats.                                              *)
(***************************************************************************)
EXTENDS Integers, Sequences, FiniteSets, TLC

\* Fixed-point resolution of finite magnitudes, and the finer one used
\* inside the series of exp and log.
ONE == 10^3
PREC == 10^4

\* Number of series terms evaluated by FExp and FLog.
ExpTerms == 8
LnTerms == 6

Abs(x) == IF x < 0 THEN -x ELSE x

\* F applied to the value of e, with e evaluated once (a local variable).
With(e, F(_)) == CHOOSE r \in {F(x) : x \in {e}} : TRUE

\* a / b to the nearest integer, a >= 0, b > 0.
RoundDiv(a, b) == (a + b \div 2) \div b

\* a * b / c to the nearest integer without forming a * b; a, b >= 0, c > 0.
MulDiv(a, b, c) ==
    LET hi == IF a >= b THEN a ELSE b
        lo == IF a >= b THEN b ELSE a
    IN  (hi \div c) * lo + RoundDiv((hi % c) * lo, c)

(***************************************************************************)
(* binary64 values: [c |-> class, s |-> sign, m |-> magnitude * ONE].      *)
(***************************************************************************)
Fin(v) == [c |-> "fin", s |-> IF v < 0 THEN -1 ELSE 1, m |-> Abs(v)]
Mk(s, m) == [c |-> "fin", s |-> s, m |-> m]
Inf(s) == [c |-> "inf", s |-> s, m |-> 0]
NaN == [c |-> "nan", s |-> 1, m |-> 0]
\* A column or a result that does not exist (Python None / absent column).
None == [c |-> "none", s |-> 1, m |-> 0]

IsNaN(a) == a.c = "nan"
IsInf(a) == a.c = "inf"
IsFinite(a) == a.c = "fin"
IsZero(a) == a.c = "fin" /\ a.m = 0
NonFinite(a) == a.c \in {"inf", "nan"}
Val(a) == a.s * a.m

\* IEEE comparison a > 0 (False for NaN and for both zeros).
GtZero(a) == \/ a.c = "inf" /\ a.s = 1
             \/ a.c = "fin" /\ a.s = 1 /\ a.m > 0

FNeg(a) == IF IsNaN(a) THEN NaN ELSE [a EXCEPT !.s = -a.s]

FAdd(a, b) ==
    IF IsNaN(a) \/ IsNaN(b) THEN NaN
    ELSE IF IsInf(a) /\ IsInf(b) THEN (IF a.s = b.s THEN a ELSE NaN)
    ELSE IF IsInf(a) THEN a
    ELSE IF IsInf(b) THEN b
    ELSE LET v == Val(a) + Val(b)
         IN  IF v = 0 THEN Mk(IF a.s = -1 /\ b.s = -1 THEN -1 ELSE 1, 0)
             ELSE Fin(v)

FSub(a, b) == FAdd(a, FNeg(b))

FMul(a, b) ==
    IF IsNaN(a) \/ IsNaN(b) THEN NaN
    ELSE IF (IsInf(a) /\ IsZero(b)) \/ (IsZero(a) /\ IsInf(b)) THEN NaN
    ELSE IF IsInf(a) \/ IsInf(b) THEN Inf(a.s * b.s)
    ELSE Mk(a.s * b.s, MulDiv(a.m, b.m, ONE))

\* numpy scalar division: a zero divisor gives +-inf or NaN, never an exception.
FDiv(a, b) ==
    IF IsNaN(a) \/ IsNaN(b) THEN NaN
    ELSE IF IsInf(a) /\ IsInf(b) THEN NaN
    ELSE IF IsZero(a) /\ IsZero(b) THEN NaN
    ELSE IF IsInf(a) \/ IsZero(b) THEN Inf(a.s * b.s)
    ELSE IF IsInf(b) THEN Mk(a.s * b.s, 0)
    ELSE Mk(a.s * b.s, MulDiv(a.m, ONE, b.m))

(***************************************************************************)
(* Library functions called by the pricer.                                 *)
(***************************************************************************)
RECURSIVE NewtonSqrt(_, _)
NewtonSqrt(n, x) ==
    LET y == (x + n \div x) \div 2
    IN  IF y >= x THEN x ELSE NewtonSqrt(n, y)

\* Nearest integer to the square root of n >= 0; Newton's iteration starts
\* from above the root.
ISqrt(n) ==
    IF n = 0 THEN 0
    ELSE LET r == NewtonSqrt(n, IF n < ONE * ONE THEN ONE ELSE n \div ONE)
         IN  IF n - r * r > r THEN r + 1 ELSE r

\* np.sqrt
FSqrt(a) ==
    IF IsNaN(a) THEN NaN
    ELSE IF IsZero(a) THEN a
    ELSE IF a.s = -1 THEN NaN
    ELSE IF IsInf(a) THEN a
    ELSE Mk(1, ISqrt(a.m * ONE))

\* sum_{k >= i} x^k / k! given term = x^i / i!, all in PREC units, x >= 0.
RECURSIVE ExpSeries(_, _, _)
ExpSeries(x, term, i) ==
    IF i > ExpTerms \/ term = 0 THEN 0
    ELSE term + ExpSeries(x, RoundDiv(term * x, PREC * (i + 1)), i + 1)

\* e^x in PREC units for x >= 0 in PREC units: halve the argument until it
\* is at most 1/2, then square back.
RECURSIVE ExpPos(_)
ExpPos(x) ==
    IF 2 * x <= PREC THEN ExpSeries(x, PREC, 0)
    ELSE LET h == ExpPos(x \div 2)
             sq == MulDiv(h, h, PREC)
         IN  IF x % 2 = 0 THEN sq
             ELSE MulDiv(sq, PREC + 1, PREC)

\* np.exp
FExp(a) ==
    IF IsNaN(a) THEN NaN
    ELSE IF IsInf(a) THEN (IF a.s = 1 THEN a ELSE Mk(1, 0))
    ELSE LET e == ExpPos(a.m * (PREC \div ONE))
         IN  IF a.s = 1 THEN Mk(1, RoundDiv(e, PREC \div ONE))
             ELSE Mk(1, RoundDiv(PREC * ONE, e))

\* ln 2 in PREC units.
LN2 == 6931

\* sum_{k >= i} y^(2k+1) / (2k+1) given pw = |y|^(2i+1), PREC units.
RECURSIVE AtanhSeries(_, _, _)
AtanhSeries(y2, pw, i) ==
    IF i >= LnTerms \/ pw = 0 THEN 0
    ELSE RoundDiv(pw, 2 * i + 1) + AtanhSeries(y2, RoundDiv(pw * y2, PREC), i + 1)

\* ln x, signed, in PREC units, for x > 0 in PREC units: reduce x into
\* [1, 2) by powers of two, then 2 * atanh((x - 1) / (x + 1)).
RECURSIVE LnPrec(_)
LnPrec(x) ==
    IF x >= 2 * PREC THEN LnPrec(x \div 2) + LN2
    ELSE IF x < PREC THEN LnPrec(2 * x) - LN2
    ELSE LET y == RoundDiv((x - PREC) * PREC, x + PREC)
         IN  2 * AtanhSeries(RoundDiv(y * y, PREC), y, 0)

\* np.log
FLog(a) ==
    IF IsNaN(a) THEN NaN
    ELSE IF IsZero(a) THEN Inf(-1)
    ELSE IF a.s = -1 THEN NaN
    ELSE IF IsInf(a) THEN a
    ELSE LET l == LnPrec(a.m * (PREC \div ONE))
         IN  Mk(IF l < 0 THEN -1 ELSE 1, RoundDiv(Abs(l), PREC \div ONE))

\* Upper tail 1 - Phi(x) of the standard normal at x = 0.0, 0.1, ..., 3.3,
\* in units of 1/ONE.
QTable ==
    << 500, 460, 421, 382, 345, 309, 274, 242, 212, 184,
       159, 136, 115,  97,  81,  67,  55,  45,  36,  29,
        23,  18,  14,  11,   8,   6,   5,   3,   3,   2,
         1,   1,   1,   0 >>

\* Upper tail at magnitude m (units of 1/ONE), by linear interpolation.
QTail(m) ==
    LET w == ONE \div 10
        i == m \div w
    IN  IF i + 1 >= Len(QTable) THEN 0
        ELSE QTable[i + 1] - RoundDiv((QTable[i + 1] - QTable[i + 2]) * (m % w), w)

\* scipy.stats.norm.cdf
standard_normal_cdf(x) ==
    IF IsNaN(x) THEN NaN
    ELSE IF IsInf(x) THEN (IF x.s = 1 THEN Mk(1, ONE) ELSE Mk(1, 0))
    ELSE IF x.s = -1 /\ x.m > 0 THEN Mk(1, QTail(x.m))
    ELSE Mk(1, ONE - QTail(x.m))

(***************************************************************************)
(* src/src/black_scholes.py                                                *)
(***************************************************************************)
Half == Mk(1, ONE \div 2)

\* A plausible slip: the assert on volatility written with >=.
bs_preconditions_zero_volatility(years_to_expiry, strike, spot, volatility, interest_rate) ==
    /\ GtZero(years_to_expiry)
    /\ GtZero(strike)
    /\ GtZero(spot)
    /\ GtZero(volatility) \/ IsZero(volatility)
    /\ GtZero(interest_rate)

\* The five assert statements.
bs_preconditions(years_to_expiry, strike, spot, volatility, interest_rate) ==
    /\ GtZero(years_to_expiry)
    /\ GtZero(strike)
    /\ GtZero(spot)
    /\ GtZero(volatility)
    /\ GtZero(interest_rate)

bs_d1(years_to_expiry, strike, spot, volatility, interest_rate) ==
    FDiv(FAdd(FLog(FDiv(spot, strike)),
              FMul(FAdd(interest_rate, FMul(Half, FMul(volatility, volatility))),
                   years_to_expiry)),
         FMul(volatility, FSqrt(years_to_expiry)))

bs_d2(d1, years_to_expiry, volatility) ==
    FSub(d1, FMul(volatility, FSqrt(years_to_expiry)))

\* strike * exp(-interest_rate * years_to_expiry)
bs_discounted(strike, interest_rate, years_to_expiry) ==
    FMul(strike, FExp(FMul(FNeg(interest_rate), years_to_expiry)))

bs_price(is_call, d1, d2, years_to_expiry, strike, spot, interest_rate) ==
    IF is_call
    THEN FSub(FMul(spot, standard_normal_cdf(d1)),
              FMul(bs_discounted(strike, interest_rate, years_to_expiry),
                   standard_normal_cdf(d2)))
    ELSE FSub(FMul(bs_discounted(strike, interest_rate, years_to_expiry),
                   standard_normal_cdf(FNeg(d2))),
              FMul(spot, standard_normal_cdf(FNeg(d1))))

bs_delta(is_call, d1) ==
    IF is_call THEN standard_normal_cdf(d1)
    ELSE FNeg(standard_normal_cdf(FNeg(d1)))

\* A plausible slip: the put branch takes the tail at -d1.
bs_vega_put_tail(is_call, d1, years_to_expiry, spot) ==
    IF is_call
    THEN FMul(FMul(spot, FSqrt(years_to_expiry)), standard_normal_cdf(d1))
    ELSE FMul(FMul(spot, FSqrt(years_to_expiry)), standard_normal_cdf(FNeg(d1)))

bs_vega(is_call, d1, years_to_expiry, spot) ==
    IF is_call
    THEN FMul(FMul(spot, FSqrt(years_to_expiry)), standard_normal_cdf(d1))
    ELSE FMul(FMul(spot, FSqrt(years_to_expiry)), standard_normal_cdf(d1))

\* The outcome of one call: raised = "AssertionError" and nothing evaluated,
\* or raised = "" and the returned (price, delta, vega); d1 and d2 are kept
\* to show what was evaluated.
black_scholes_option_price(years_to_expiry, strike, spot, volatility, interest_rate, is_call) ==
    IF ~bs_preconditions(years_to_expiry, strike, spot, volatility, interest_rate)
    THEN [raised |-> "AssertionError", d1 |-> None, d2 |-> None,
          price |-> None, delta |-> None, vega |-> None]
    ELSE With(bs_d1(years_to_expiry, strike, spot, volatility, interest_rate),
              LAMBDA d1 :
         With(bs_d2(d1, years_to_expiry, volatility), LAMBDA d2 :
             [raised |-> "", d1 |-> d1, d2 |-> d2,
              price |-> bs_price(is_call, d1, d2, years_to_expiry, strike,
                                 spot, interest_rate),
              delta |-> bs_delta(is_call, d1),
              vega |-> bs_vega(is_call, d1, years_to_expiry, spot)]))

(***************************************************************************)
(* Binary floating point with MantissaBits significant bits, for strikes.  *)
(***************************************************************************)
\* 9 and 53 are both 1 modulo 4, the period of the binary expansion of 1/10,
\* so the decimal fractions of GridSpec round the same way in both formats;
\* its grids stay far shorter than 2^MantissaBits rows, so their lengths are
\* exact integers as in binary64.
MantissaBits == 9

\* Units per 1.0: the spacing of the values in [1/16, 1/8).
Q == 2^(MantissaBits + 3)

RECURSIVE BitLen(_)
BitLen(v) == IF v = 0 THEN 0 ELSE 1 + BitLen(v \div 2)

\* The value v (v >= 0; slightly more than v when sticky) rounded to
\* MantissaBits significant bits, to nearest, ties to even.
RoundSig(v, sticky) ==
    LET k == BitLen(v) - MantissaBits
    IN  IF k <= 0 THEN v
        ELSE LET unit == 2^k
                 q == v \div unit
                 r == v % unit
             IN  IF r * 2 > unit \/ (r * 2 = unit /\ (sticky \/ q % 2 = 1))
                 THEN (q + 1) * unit
                 ELSE q * unit

\* Rounded sum, difference and product by an integer; operands >= 0.
GAdd(a, b) == RoundSig(a + b, FALSE)
GSub(a, b) == IF a >= b THEN RoundSig(a - b, FALSE) ELSE -RoundSig(b - a, FALSE)
GMulInt(i, a) == RoundSig(i * a, FALSE)

\* ceil of the rounded quotient a / b, for a > 0, b > 0: the integer part,
\* then as many fraction bits as the significand holds plus a guard bit and
\* a sticky bit.
CeilQuot(a, b) ==
    LET qi == a \div b
        r == a % b
        f == MantissaBits - BitLen(qi) + 1
    IN  IF r = 0 \/ f <= 0 THEN RoundSig(qi, r # 0)
        ELSE IF qi = 0 THEN 1
        ELSE LET num == r * 2^f
                 m == RoundSig(qi * 2^f + num \div b, num % b # 0)
             IN  (m + 2^f - 1) \div 2^f

\* The float nearest to the decimal n / d the user types (n / d >= 1/16).
Decimal(n, d) ==
    LET num == n * Q * 4
    IN  RoundSig(num \div d, num % d # 0) \div 4

(***************************************************************************)
(* src/main.py.  Streamlit runs the script from top to bottom once at      *)
(* start-up and again after every change of a widget; the state is the     *)
(* widgets' values and what the latest run left behind.  Widget values     *)
(* are finite floats, kept as integers: the three strike widgets in units  *)
(* of 1/Q, days_to_expiry in days, the others in units of 1/ONE.           *)
(***************************************************************************)
VARIABLES
    eur_usd, risk_free_rate, ratio, historical_vola, last_price,
    days_to_expiry, strike_range_step, strike_range_start, strike_range_end,
    dollars_to_invest,
    strikes,        \* the array np.arange returned (units of 1/Q)
    option_prices,  \* the rows of the DataFrame, << >> when it was not built
    raised,         \* "" or the exception that ended the run
    bs_args, bs_ret,    \* one direct call of the pricer and its outcome
    grid_args, grid_ret \* one strike range and the grid lines 93-112 make of it

widgets == << eur_usd, risk_free_rate, ratio, historical_vola, last_price,
              days_to_expiry, strike_range_step, strike_range_start,
              strike_range_end, dollars_to_invest >>
outputs == << strikes, option_prices, raised >>
pricer == << bs_args, bs_ret >>
grid == << grid_args, grid_ret >>
vars == << widgets, outputs, pricer, grid >>

\* int(strike) of a strike in units of 1/Q: truncation toward zero.
py_int(k) == IF k >= 0 THEN k \div Q ELSE -((-k) \div Q)

\* A strike as the finite binary64 value the pricer receives.
FStrike(k) == Mk(IF k < 0 THEN -1 ELSE 1, MulDiv(Abs(k), ONE, Q))

\* np.floor of a finite value.
np_floor(a) ==
    IF ~IsFinite(a) THEN a
    ELSE IF a.s = 1 THEN Mk(1, (a.m \div ONE) * ONE)
    ELSE Mk(-1, ((a.m + ONE - 1) \div ONE) * ONE)

\* math.floor: the exception it raises, "" when it returns.
math_floor_raises(a) ==
    IF IsNaN(a) THEN "ValueError"
    ELSE IF IsInf(a) THEN "OverflowError"
    ELSE ""

\* round_strike, lines 79-81, with the step the widget holds; the result
\* as a strike (units of 1/Q).
round_strike(strike, step) ==
    LET v == FMul(FStrike(step), np_floor(FDiv(strike, FStrike(step))))
    IN  RoundSig(MulDiv(v.m, Q, ONE), FALSE)

\* np.arange(start, stop, step) for start >= 0, step > 0: its length is
\* ceil((stop - start) / step); element 0 is start, element 1 is
\* start + step, and element i is start + i * delta with
\* delta = element 1 - element 0.
np_arange(start, stop, step) ==
    LET n == IF stop > start THEN CeilQuot(GSub(stop, start), step) ELSE 0
        next == GAdd(start, step)
        delta == GSub(next, start)
    IN  [i \in 1..n |->
            IF i = 1 THEN start
            ELSE IF i = 2 THEN next
            ELSE GAdd(start, GMulInt(i - 1, delta))]

\* Lines 93-95.
strike_grid(start, end, step) == np_arange(start, GAdd(end, step), step)

\* Lines 111-112 over the whole array: the "Strike" column.
strike_column(ks) == [i \in 1..Len(ks) |-> py_int(ks[i])]

\* The widget values one run reads.
Inputs(eu, rf, ra, hv, lp, de, st, ss, se, di) ==
    [eur_usd |-> eu, risk_free_rate |-> rf, ratio |-> ra, historical_vola |-> hv,
     last_price |-> lp, days_to_expiry |-> de, strike_range_step |-> st,
     strike_range_start |-> ss, strike_range_end |-> se, dollars_to_invest |-> di]

Hundred == Fin(100 * ONE)

\* Lines 107-109.
vola_of(in) == FDiv(Fin(in.historical_vola), Hundred)
r_of(in) == FDiv(Fin(in.risk_free_rate), Hundred)
years_to_expiry_of(in) == FDiv(Fin(in.days_to_expiry * ONE), Fin(365 * ONE))

\* The two pricer calls of one loop iteration, lines 115-135.
call_of(in, strike) ==
    black_scholes_option_price(years_to_expiry_of(in), FStrike(strike),
        Fin(in.last_price), vola_of(in), r_of(in), TRUE)
put_of(in, strike) ==
    black_scholes_option_price(years_to_expiry_of(in), FStrike(strike),
        Fin(in.last_price), vola_of(in), r_of(in), FALSE)

\* A plausible slip: the currency divisor applied to the vega as well.
priced_row_vega_converted(in, strike) ==
    With(call_of(in, strike), LAMBDA c :
    With(put_of(in, strike), LAMBDA p :
        [Strike |-> py_int(strike),
         CallPrice |-> FDiv(FMul(c.price, Fin(in.ratio)), Fin(in.eur_usd)),
         CallDelta |-> c.delta,
         PutPrice |-> FDiv(FMul(p.price, Fin(in.ratio)), Fin(in.eur_usd)),
         PutDelta |-> p.delta,
         Vega |-> FDiv(FMul(p.vega, Fin(in.ratio)), Fin(in.eur_usd))]))

\* One iteration of the pricing loop, lines 111-139 (both calls returned).
priced_row(in, strike) ==
    With(call_of(in, strike), LAMBDA c :
    With(put_of(in, strike), LAMBDA p :
        [Strike |-> py_int(strike),
         CallPrice |-> FDiv(FMul(c.price, Fin(in.ratio)), Fin(in.eur_usd)),
         CallDelta |-> c.delta,
         PutPrice |-> FDiv(FMul(p.price, Fin(in.ratio)), Fin(in.eur_usd)),
         PutDelta |-> p.delta,
         Vega |-> FMul(p.vega, Fin(in.ratio))]))

\* Line 143, from the Strike column.
distance_to_strike(in, row) ==
    FMul(FSub(FDiv(Fin(row.Strike * ONE), Fin(in.last_price)), Fin(ONE)), Hundred)

\* Lines 146-153, from the row iterrows yields.
puts_per_call(row) == FDiv(FNeg(row.CallDelta), row.PutDelta)
straddle_cost(row) == FAdd(row.CallPrice, FMul(row.PutPrice, puts_per_call(row)))
max_options_raises(in, row) ==
    math_floor_raises(FDiv(Fin(in.dollars_to_invest), straddle_cost(row)))
call_break_even(in, row) ==
    FAdd(Fin(row.Strike * ONE), FDiv(row.CallPrice, Fin(in.ratio)))
put_break_even(in, row) ==
    FSub(Fin(row.Strike * ONE), FDiv(row.PutPrice, Fin(in.ratio)))

\* Lines 161-163, from the columns.
vega_per_straddle(row) ==
    FDiv(FMul(Fin(2 * ONE), row.Vega),
         FAdd(row.CallPrice, FMul(row.PutPrice, row.PutsPerCall)))

\* Whether the pricing loop ends in the pricer's AssertionError: the first
\* call of some iteration fails its preconditions.
pricing_raises(in, ks) ==
    \E i \in 1..Len(ks) :
        ~bs_preconditions(years_to_expiry_of(in), FStrike(ks[i]), Fin(in.last_price),
                          vola_of(in), r_of(in))

\* The frame after line 143: one row per strike, with its distance.
priced_frame(in, ks) ==
    [i \in 1..Len(ks) |->
        With(priced_row(in, ks[i]), LAMBDA row :
            row @@ [Distance |-> distance_to_strike(in, row)])]

\* The first row at which math.floor raises in the loop of lines 145-157,
\* 0 when the loop completes.
first_floor_failure(in, frame) ==
    With({i \in 1..Len(frame) : max_options_raises(in, frame[i]) # ""},
         LAMBDA bad :
            IF bad = {} THEN 0 ELSE CHOOSE i \in bad : \A j \in bad : i <= j)

\* The frame when the script ends, the loop of lines 145-157 having stopped
\* at row stop (0: completed, and lines 161-163 ran).  A column that a .loc
\* assignment created holds NaN in the rows not assigned yet; a column
\* never created is None.
final_frame(in, frame, stop) ==
    [i \in 1..Len(frame) |->
        With(frame[i], LAMBDA row :
        With(IF stop = 0 \/ i < stop
             THEN [CallBreakEven |-> call_break_even(in, row),
                   PutBreakEven |-> put_break_even(in, row),
                   PutsPerCall |-> puts_per_call(row)]
             ELSE IF stop = 1
             THEN [CallBreakEven |-> None, PutBreakEven |-> None,
                   PutsPerCall |-> None]
             ELSE [CallBreakEven |-> NaN, PutBreakEven |-> NaN,
                   PutsPerCall |-> NaN],
             LAMBDA cols :
                row @@ cols @@
                [VegaPerStraddle |-> IF stop = 0
                                     THEN vega_per_straddle(row @@ cols)
                                     ELSE None]))]

\* One whole run of the script on the widget values in.
run_script(in) ==
    With(strike_grid(in.strike_range_start, in.strike_range_end,
                     in.strike_range_step), LAMBDA ks :
        IF pricing_raises(in, ks)
        THEN [strikes |-> ks, option_prices |-> << >>, raised |-> "AssertionError"]
        ELSE IF Len(ks) = 0
        THEN [strikes |-> ks, option_prices |-> << >>, raised |-> "KeyError"]
        ELSE With(priced_frame(in, ks), LAMBDA frame :
             With(first_floor_failure(in, frame), LAMBDA stop :
                [strikes |-> ks,
                 option_prices |-> final_frame(in, frame, stop),
                 raised |-> IF stop = 0 THEN ""
                            ELSE max_options_raises(in, frame[stop])])))

(***************************************************************************)
(* Values the user and the market supply.                                  *)
(***************************************************************************)
EurUsdValues == {1 * ONE, 2 * ONE}
RiskFreeRateValues == {0, 5500}
RatioValues == {100, 1 * ONE}
HistoricalVolaValues == {0, 20 * ONE}
LastPriceValues == {100, 100 * ONE, 50000 * ONE}
DaysToExpiryValues == {0, 140}
StrikeStepValues == {5 * Q, 10 * Q}
StrikeStartValues == {80 * Q, 90 * Q, Decimal(219, 2)}
StrikeEndValues == {105 * Q, 110 * Q, 120 * Q}
DollarsValues == {500 * ONE, 1000 * ONE}

\* What the market-data provider returned at start-up, lines 31-36.
MarketLastPrice == 100 * ONE
MarketVola == 20 * ONE

Rerun(in) ==
    \E out \in {run_script(in)} :
        /\ strikes' = out.strikes
        /\ option_prices' = out.option_prices
        /\ raised' = out.raised

\* No direct call of the pricer made yet.
NoCall == [years_to_expiry |-> 0, strike |-> 0, spot |-> 0, volatility |-> 0,
           interest_rate |-> 0, is_call |-> TRUE]
NotCalled == [raised |-> "not called", d1 |-> None, d2 |-> None,
              price |-> None, delta |-> None, vega |-> None]

\* Lines 93-95 and 111-112 for one strike range: the array and the "Strike"
\* column the loop fills when the pricer raises nothing.
build_grid(start, end, step) ==
    With(strike_grid(start, end, step), LAMBDA ks :
        [strikes |-> ks, Strike |-> strike_column(ks)])

\* The first run: every widget at its default, lines 14-23, 39-43, 60-62,
\* 75-91.
DefaultInputs ==
    LET step == 10 * Q
    IN  Inputs(1 * ONE, 5500, 100, MarketVola, MarketLastPrice, 140, step,
               round_strike(FMul(Fin(MarketLastPrice), Fin(800)), step),
               round_strike(FMul(Fin(MarketLastPrice), Fin(1200)), step),
               1000 * ONE)

ScriptInit ==
    LET in == DefaultInputs
        out == run_script(in)
    IN  /\ eur_usd = in.eur_usd
        /\ risk_free_rate = in.risk_free_rate
        /\ ratio = in.ratio
        /\ historical_vola = in.historical_vola
        /\ last_price = in.last_price
        /\ days_to_expiry = in.days_to_expiry
        /\ strike_range_step = in.strike_range_step
        /\ strike_range_start = in.strike_range_start
        /\ strike_range_end = in.strike_range_end
        /\ dollars_to_invest = in.dollars_to_invest
        /\ strikes = out.strikes
        /\ option_prices = out.option_prices
        /\ raised = out.raised

PricerIdle == bs_args = NoCall /\ bs_ret = NotCalled

GridIdle ==
    LET in == DefaultInputs
    IN  /\ grid_args = [start |-> in.strike_range_start,
                        end |-> in.strike_range_end,
                        step |-> in.strike_range_step]
        /\ grid_ret = build_grid(in.strike_range_start, in.strike_range_end,
                                 in.strike_range_step)

Init == ScriptInit /\ PricerIdle /\ GridIdle

\* The user changes one widget and the script runs again.
SetEurUsd ==
    \E v \in EurUsdValues \ {eur_usd} :
        /\ eur_usd' = v
        /\ UNCHANGED << risk_free_rate, ratio, historical_vola, last_price,
                        days_to_expiry, strike_range_step, strike_range_start,
                        strike_range_end, dollars_to_invest, pricer, grid >>
        /\ Rerun(Inputs(v, risk_free_rate, ratio, historical_vola, last_price,
                        days_to_expiry, strike_range_step, strike_range_start,
                        strike_range_end, dollars_to_invest))

SetRiskFreeRate ==
    \E v \in RiskFreeRateValues \ {risk_free_rate} :
        /\ risk_free_rate' = v
        /\ UNCHANGED << eur_usd, ratio, historical_vola, last_price,
                        days_to_expiry, strike_range_step, strike_range_start,
                        strike_range_end, dollars_to_invest, pricer, grid >>
        /\ Rerun(Inputs(eur_usd, v, ratio, historical_vola, last_price,
                        days_to_expiry, strike_range_step, strike_range_start,
                        strike_range_end, dollars_to_invest))

SetRatio ==
    \E v \in RatioValues \ {ratio} :
        /\ ratio' = v
        /\ UNCHANGED << eur_usd, risk_free_rate, historical_vola, last_price,
                        days_to_expiry, strike_range_step, strike_range_start,
                        strike_range_end, dollars_to_invest, pricer, grid >>
        /\ Rerun(Inputs(eur_usd, risk_free_rate, v, historical_vola, last_price,
                        days_to_expiry, strike_range_step, strike_range_start,
                        strike_range_end, dollars_to_invest))

SetHistoricalVola ==
    \E v \in HistoricalVolaValues \ {historical_vola} :
        /\ historical_vola' = v
        /\ UNCHANGED << eur_usd, risk_free_rate, ratio, last_price,
                        days_to_expiry, strike_range_step, strike_range_start,
                        strike_range_end, dollars_to_invest, pricer, grid >>
        /\ Rerun(Inputs(eur_usd, risk_free_rate, ratio, v, last_price,
                        days_to_expiry, strike_range_step, strike_range_start,
                        strike_range_end, dollars_to_invest))

SetLastPrice ==
    \E v \in LastPriceValues \ {last_price} :
        /\ last_price' = v
        /\ UNCHANGED << eur_usd, risk_free_rate, ratio, historical_vola,
                        days_to_expiry, strike_range_step, strike_range_start,
                        strike_range_end, dollars_to_invest, pricer, grid >>
        /\ Rerun(Inputs(eur_usd, risk_free_rate, ratio, historical_vola, v,
                        days_to_expiry, strike_range_step, strike_range_start,
                        strike_range_end, dollars_to_invest))

SetDate ==
    \E v \in DaysToExpiryValues \ {days_to_expiry} :
        /\ days_to_expiry' = v
        /\ UNCHANGED << eur_usd, risk_free_rate, ratio, historical_vola,
                        last_price, strike_range_step, strike_range_start,
                        strike_range_end, dollars_to_invest, pricer, grid >>
        /\ Rerun(Inputs(eur_usd, risk_free_rate, ratio, historical_vola,
                        last_price, v, strike_range_step, strike_range_start,
                        strike_range_end, dollars_to_invest))

SetStrikeRangeStep ==
    \E v \in StrikeStepValues \ {strike_range_step} :
        /\ strike_range_step' = v
        /\ UNCHANGED << eur_usd, risk_free_rate, ratio, historical_vola,
                        last_price, days_to_expiry, strike_range_start,
                        strike_range_end, dollars_to_invest, pricer, grid >>
        /\ Rerun(Inputs(eur_usd, risk_free_rate, ratio, historical_vola,
                        last_price, days_to_expiry, v, strike_range_start,
                        strike_range_end, dollars_to_invest))

SetStrikeRangeStart ==
    \E v \in StrikeStartValues \ {strike_range_start} :
        /\ strike_range_start' = v
        /\ UNCHANGED << eur_usd, risk_free_rate, ratio, historical_vola,
                        last_price, days_to_expiry, strike_range_step,
                        strike_range_end, dollars_to_invest, pricer, grid >>
        /\ Rerun(Inputs(eur_usd, risk_free_rate, ratio, historical_vola,
                        last_price, days_to_expiry, strike_range_step, v,
                        strike_range_end, dollars_to_invest))

SetStrikeRangeEnd ==
    \E v \in StrikeEndValues \ {strike_range_end} :
        /\ strike_range_end' = v
        /\ UNCHANGED << eur_usd, risk_free_rate, ratio, historical_vola,
                        last_price, days_to_expiry, strike_range_step,
                        strike_range_start, dollars_to_invest, pricer, grid >>
        /\ Rerun(Inputs(eur_usd, risk_free_rate, ratio, historical_vola,
                        last_price, days_to_expiry, strike_range_step,
                        strike_range_start, v, dollars_to_invest))

SetDollarsToInvest ==
    \E v \in DollarsValues \ {dollars_to_invest} :
        /\ dollars_to_invest' = v
        /\ UNCHANGED << eur_usd, risk_free_rate, ratio, historical_vola,
                        last_price, days_to_expiry, strike_range_step,
                        strike_range_start, strike_range_end, pricer, grid >>
        /\ Rerun(Inputs(eur_usd, risk_free_rate, ratio, historical_vola,
                        last_price, days_to_expiry, strike_range_step,
                        strike_range_start, strike_range_end, v))

Next ==
    \/ SetEurUsd
    \/ SetRiskFreeRate
    \/ SetRatio
    \/ SetHistoricalVola
    \/ SetLastPrice
    \/ SetDate
    \/ SetStrikeRangeStep
    \/ SetStrikeRangeStart
    \/ SetStrikeRangeEnd
    \/ SetDollarsToInvest

Spec == Init /\ [][Next]_vars

\* The widget values of the current state.
Current ==
    Inputs(eur_usd, risk_free_rate, ratio, historical_vola, last_price,
           days_to_expiry, strike_range_step, strike_range_start,
           strike_range_end, dollars_to_invest)

\* The DataFrame was built: the pricing loop met no failed precondition.
FrameBuilt == raised # "AssertionError"

(***************************************************************************)
(* The pricer on its own: direct calls of black_scholes_option_price, the  *)
(* script at rest.                                                         *)
(***************************************************************************)
YearsValues == {-500, 0, 384, 1000}
StrikeValues == {0, 90 * ONE, 110 * ONE}
SpotValues == {-1 * ONE, 100 * ONE}
VolatilityValues == {0, 200, 250}
InterestRateValues == {0, 55}

PricerCall ==
    \E y \in YearsValues, k \in StrikeValues, sp \in SpotValues,
       v \in VolatilityValues, r \in InterestRateValues, c \in BOOLEAN :
        /\ bs_args' = [years_to_expiry |-> y, strike |-> k, spot |-> sp,
                       volatility |-> v, interest_rate |-> r, is_call |-> c]
        /\ \E out \in {black_scholes_option_price(Fin(y), Fin(k), Fin(sp),
                                                  Fin(v), Fin(r), c)} :
               bs_ret' = out
        /\ UNCHANGED << widgets, outputs, grid >>

PricerNext == PricerCall

PricerSpec == Init /\ [][PricerNext]_vars

(***************************************************************************)
(* The strike grid on its own, lines 93-95 and 111-112, over ranges with   *)
(* decimal fractions, which no binary float holds exactly.                 *)
(***************************************************************************)
GridStartValues ==
    {Decimal(1, 10), Decimal(2, 10), Decimal(3, 10), Decimal(1, 2), 1 * Q, 2 * Q}
GridEndValues ==
    {Decimal(2, 10), Decimal(3, 10), 1 * Q, Decimal(13, 10), Decimal(5, 2)}
GridStepValues == {Decimal(1, 10), Decimal(2, 10), Decimal(1, 2), 1 * Q}

Regrid(start, end, step) ==
    /\ grid_args' = [start |-> start, end |-> end, step |-> step]
    /\ \E out \in {build_grid(start, end, step)} : grid_ret' = out
    /\ UNCHANGED << widgets, outputs, pricer >>

GridInit ==
    /\ ScriptInit
    /\ PricerIdle
    /\ \E st \in GridStartValues, en \in GridEndValues, sp \in GridStepValues :
           /\ grid_args = [start |-> st, end |-> en, step |-> sp]
           /\ grid_ret = build_grid(st, en, sp)

GridSetStart ==
    \E v \in GridStartValues \ {grid_args.start} :
        Regrid(v, grid_args.end, grid_args.step)

GridSetEnd ==
    \E v \in GridEndValues \ {grid_args.end} :
        Regrid(grid_args.start, v, grid_args.step)

GridSetStep ==
    \E v \in GridStepValues \ {grid_args.step} :
        Regrid(grid_args.start, grid_args.end, v)

GridNext ==
    \/ GridSetStart
    \/ GridSetEnd
    \/ GridSetStep

GridSpec == GridInit /\ [][GridNext]_vars

(***************************************************************************)
(* Soundness of the number model on the inputs of Spec: no priced contract *)
(* has d1 or d2 in the band where the cumulative normal is zero in the     *)
(* model and not yet zero in binary64.                                     *)
(***************************************************************************)
InUnderflowBand(d) == IsFinite(d) /\ d.m > 3200 /\ d.m < 39 * ONE

OutsideUnderflowBand ==
    FrameBuilt =>
        \A i \in 1..Len(strikes) :
            LET c == call_of(Current, strikes[i])
            IN  ~InUnderflowBand(c.d1) /\ ~InUnderflowBand(c.d2)

(***************************************************************************)
(* Properties of the pricer (PricerSpec).                                  *)
(***************************************************************************)
Called == bs_ret.raised # "not called"

AllPositive ==
    /\ bs_args.years_to_expiry > 0
    /\ bs_args.strike > 0
    /\ bs_args.spot > 0
    /\ bs_args.volatility > 0
    /\ bs_args.interest_rate > 0

\* C3.  Pricer preconditions: a call in which any of years_to_expiry,
\* strike, spot, volatility or interest_rate is <= 0 (exactly 0 included)
\* fails before d1 is evaluated and returns no (price, delta, vega); a call
\* in which all five are > 0 does not fail on a precondition and returns
\* all three.
C3_PricerPreconditions ==
    Called =>
        IF AllPositive
        THEN /\ bs_ret.raised = ""
             /\ bs_ret.d1 # None
             /\ bs_ret.price # None /\ bs_ret.delta # None /\ bs_ret.vega # None
        ELSE /\ bs_ret.raised = "AssertionError"
             /\ bs_ret.d1 = None /\ bs_ret.d2 = None
             /\ bs_ret.price = None /\ bs_ret.delta = None /\ bs_ret.vega = None

\* A call whose volatility is exactly 0, everything else valid, has failed.
C3_Witness ==
    /\ Called
    /\ bs_args.volatility = 0
    /\ bs_args.years_to_expiry > 0 /\ bs_args.strike > 0
    /\ bs_args.spot > 0 /\ bs_args.interest_rate > 0
    /\ bs_ret.raised = "AssertionError"

\* The same call with the other option type.
OtherType ==
    black_scholes_option_price(Fin(bs_args.years_to_expiry), Fin(bs_args.strike),
        Fin(bs_args.spot), Fin(bs_args.volatility), Fin(bs_args.interest_rate),
        ~bs_args.is_call)

\* C8.  Vega symmetry: for valid contract parameters the call and the put
\* (all other arguments equal) return exactly the same vega.
C8_VegaSymmetry ==
    (Called /\ AllPositive) =>
        /\ bs_ret.vega # None
        /\ bs_ret.vega = OtherType.vega

\* A valid put away from the money (d1 # 0) has returned a positive vega.
C8_Witness ==
    /\ Called /\ AllPositive
    /\ ~bs_args.is_call
    /\ IsFinite(bs_ret.d1) /\ bs_ret.d1.m > 0
    /\ IsFinite(bs_ret.vega) /\ bs_ret.vega.m > 0
    /\ OtherType.raised = ""

(***************************************************************************)
(* Properties of the script (Spec).                                        *)
(***************************************************************************)
Rows == 1..Len(option_prices)

\* The row's columns of the second pass were assigned (the loop of lines
\* 145-157 reached it and math.floor did not raise on it).
Assigned(row) == row.PutsPerCall # None /\ ~IsNaN(row.PutsPerCall)

\* C1.  Degenerate hedge ratio, as the specification states it: whenever a
\* row of the grid has a put delta of zero, the run completes without
\* raising, and that row's puts-per-call and vega-per-straddle are
\* non-finite.
C1_DegenerateHedgeRatio ==
    \A i \in Rows :
        IsZero(option_prices[i].PutDelta) =>
            /\ raised = ""
            /\ NonFinite(option_prices[i].PutsPerCall)
            /\ NonFinite(option_prices[i].VegaPerStraddle)

\* C2.  Degenerate straddle cost, as the specification states it: whenever
\* a row has callPrice + putPrice * putsPerCall equal to zero, the run
\* completes without raising and that row's vega-per-straddle is
\* non-finite.
C2_DegenerateStraddleCost ==
    \A i \in Rows :
        IsZero(straddle_cost(option_prices[i])) =>
            /\ raised = ""
            /\ NonFinite(option_prices[i].VegaPerStraddle)

\* C6.  Derived metrics use the priced strike, as the specification states
\* it: in every row the distance is (k / spot - 1) * 100 and, once
\* assigned, the break-evens are k + callPrice / ratio and
\* k - putPrice / ratio, k being the untruncated strike that was priced.
C6_MetricsUsePricedStrike ==
    \A i \in Rows :
        LET row == option_prices[i]
            k == FStrike(strikes[i])
        IN  /\ row.Distance =
                   FMul(FSub(FDiv(k, Fin(last_price)), Fin(ONE)), Hundred)
            /\ Assigned(row) =>
                   /\ row.CallBreakEven = FAdd(k, FDiv(row.CallPrice, Fin(ratio)))
                   /\ row.PutBreakEven = FSub(k, FDiv(row.PutPrice, Fin(ratio)))

\* The rows of the run that differs from the current one in eur_usd only.
RowsWithEurUsd(e) == run_script([Current EXCEPT !.eur_usd = e]).option_prices

\* C7.  The currency divisor touches the price fields only: in every row
\* the call and put prices are the pricer's price * ratio / eur_usd, the
\* deltas are the pricer's deltas, the vega is the pricer's vega * ratio;
\* and a run that differs in eur_usd only has the same deltas and vega in
\* every row.
C7_CurrencyDivisorPricesOnly ==
    /\ \A i \in Rows :
           LET row == option_prices[i]
               c == call_of(Current, strikes[i])
               p == put_of(Current, strikes[i])
           IN  /\ row.CallPrice = FDiv(FMul(c.price, Fin(ratio)), Fin(eur_usd))
               /\ row.PutPrice = FDiv(FMul(p.price, Fin(ratio)), Fin(eur_usd))
               /\ row.CallDelta = c.delta
               /\ row.PutDelta = p.delta
               /\ row.Vega = FMul(p.vega, Fin(ratio))
    /\ \A e \in EurUsdValues :
           LET other == RowsWithEurUsd(e)
           IN  /\ Len(other) = Len(option_prices)
               /\ \A i \in Rows :
                      /\ other[i].CallDelta = option_prices[i].CallDelta
                      /\ other[i].PutDelta = option_prices[i].PutDelta
                      /\ other[i].Vega = option_prices[i].Vega

\* A grid built with eur_usd = 2 holds a row with a positive call price and
\* a positive vega, and the run with eur_usd = 1 prices that row higher.
C7_Witness ==
    /\ eur_usd = 2 * ONE
    /\ \E i \in Rows :
           /\ IsFinite(option_prices[i].CallPrice)
           /\ option_prices[i].CallPrice.m > 0
           /\ IsFinite(option_prices[i].Vega) /\ option_prices[i].Vega.m > 0
           /\ RowsWithEurUsd(1 * ONE)[i].CallPrice.m > option_prices[i].CallPrice.m

(***************************************************************************)
(* Properties of the strike grid (GridSpec).                               *)
(***************************************************************************)
GridRows == 1..Len(grid_ret.strikes)

\* C4.  End strike inclusion, as the specification states it: whenever
\* start <= end, the end strike is the strike of some row, as priced or as
\* recorded.
C4_EndStrikeIncluded ==
    grid_args.start <= grid_args.end =>
        \E i \in GridRows :
            \/ grid_ret.strikes[i] = grid_args.end
            \/ grid_ret.Strike[i] * Q = grid_args.end

\* end - start is a non-negative exact multiple of step.
ExactMultiple ==
    /\ grid_args.end >= grid_args.start
    /\ (grid_args.end - grid_args.start) % grid_args.step = 0

\* C5.  Grid completeness and order, as the specification states it: when
\* end - start is a non-negative exact multiple of step, the rows are
\* exactly start, start + step, ..., end, one each, none beyond end, in
\* ascending order.
C5_GridCompleteOrdered ==
    ExactMultiple =>
        /\ Len(grid_ret.strikes) =
               (grid_args.end - grid_args.start) \div grid_args.step + 1
        /\ \A i \in GridRows :
               /\ grid_ret.strikes[i] = grid_args.start + (i - 1) * grid_args.step
               /\ grid_ret.strikes[i] <= grid_args.end
               /\ grid_ret.Strike[i] = py_int(grid_ret.strikes[i])
        /\ \A i, j \in GridRows : i < j => grid_ret.strikes[i] < grid_ret.strikes[j]

\* C10.  Unique strike keys, as the claim states it: the recorded
\* (integer-truncated) strikes are strictly increasing.
C10_UniqueStrikeKeys ==
    \A i, j \in GridRows : i < j => grid_ret.Strike[i] < grid_ret.Strike[j]

====
